---- MODULE Spec2Model ----
(***************************************************************************)
(* whatpkgs: dependency closures over RPM-style package metadata.          *)
(*                                                                         *)
(* The command-line entry points of src/whatpkgs.py (neededby,             *)
(* neededtoselfhost, debugprovides, and the repository setup they share)   *)
(* are modelled as one state machine.  The traversal they call             *)
(* (depchase.process.recurse_package_deps, recurse_self_host,              *)
(* resolve_ambiguity) and the lookups (depchase.queries) are not part of   *)
(* the source file; they are modelled from sections 4.1-4.4 and 6 of the   *)
(* specification and are marked as such where they are defined.            *)
(***************************************************************************)
EXTENDS Integers, Sequences, FiniteSets, TLC

\* Longest list of package names given on the command line.
MaxSeeds == 2

(***************************************************************************)
(* MetadataProvider: the loaded repository metadata.  Package ids are      *)
(* 1..Len(Packages) and are numbered in PackageId order (by name), so the  *)
(* order of the integers is the PackageId ordering.                        *)
(***************************************************************************)
Packages ==
  << [name |-> "app",      arch |-> "x86_64",  provides |-> {"app"},
      requires |-> <<"libfoo">>, recommends |-> <<>>, source |-> "app-src"],
     [name |-> "armfoo",   arch |-> "aarch64", provides |-> {"armfoo", "libfoo"},
      requires |-> <<>>, recommends |-> <<>>, source |-> "libfoo-src"],
     [name |-> "doc",      arch |-> "noarch",  provides |-> {"doc", "compat32"},
      requires |-> <<>>, recommends |-> <<>>, source |-> "app-src"],
     [name |-> "liba",     arch |-> "x86_64",  provides |-> {"liba"},
      requires |-> <<"nothing", "libb">>, recommends |-> <<"doc">>, source |-> "libab-src"],
     [name |-> "libb",     arch |-> "x86_64",  provides |-> {"libb"},
      requires |-> <<"liba">>, recommends |-> <<>>, source |-> "libab-src"],
     [name |-> "libfoo1",  arch |-> "x86_64",  provides |-> {"libfoo1", "libfoo"},
      requires |-> <<>>, recommends |-> <<>>, source |-> "libfoo-src"],
     [name |-> "libfoo2",  arch |-> "x86_64",  provides |-> {"libfoo2", "libfoo"},
      requires |-> <<"libb">>, recommends |-> <<>>, source |-> "libfoo-src"],
     [name |-> "libfoo32", arch |-> "i686",    provides |-> {"libfoo32", "libfoo", "compat32"},
      requires |-> <<>>, recommends |-> <<>>, source |-> "libfoo-src"],
     [name |-> "tool",     arch |-> "x86_64",  provides |-> {"tool"},
      requires |-> <<"libfoo", "libfoo1", "compat32">>, recommends |-> <<"liba">>,
      source |-> "tool-src"] >>

\* build_requires(sourcePackageId): the build requirements of each source package.
BuildRequires ==
  [s \in {"app-src", "libab-src", "libfoo-src", "tool-src"} |->
     CASE s = "app-src"    -> <<"tool", "libfoo">>
       [] s = "libab-src"  -> <<"liba">>
       [] s = "libfoo-src" -> <<>>
       [] s = "tool-src"   -> <<"libfoo1", "doc", "nothing">>]

Ids == DOMAIN Packages

NoPkg == 0

Capabilities == UNION {Packages[p].provides : p \in Ids} \cup {"nothing"}

\* The inputs the runs are drawn from.
SeedNames == {"app", "liba", "tool", "nosuch"}

HintNames == {"libfoo1", "libfoo2"}

FilterNames == {"liba", "libfoo2"}

Machines == {"x86_64", "aarch64"}

\* The orders in which the provider may hand back the candidates of a query.
ProviderOrders == {"asc", "desc"}

Commands == {"neededby", "neededtoselfhost", "debugprovides"}

\* The lists of at most n different names of S.
RECURSIVE SeqsUpTo(_, _)
SeqsUpTo(S, n) ==
  IF n = 0 THEN {<<>>}
  ELSE LET shorter == SeqsUpTo(S, n - 1)
       IN  shorter \cup UNION {{Append(q, x) : x \in {y \in S : \A i \in DOMAIN q : q[i] # y}} :
                                 q \in shorter}

SeedLists == SeqsUpTo(SeedNames, MaxSeeds)

VARIABLES
  cmd,            \* the click command that was invoked
  primary_arch,   \* platform.machine()
  provOrder,      \* the order in which the provider returns candidates
  pkgnames, hint, filter, recommends, merge, pick_first, sources, requires,
  pc,             \* position in the command
  idx,            \* position of the for loop over pkgnames
  dependencies,   \* neededby: the closure, in insertion order
  binary_pkgs,    \* neededtoselfhost: the binary closure
  source_pkgs,    \* neededtoselfhost: the source packages, in insertion order
  ambiguities,    \* the ambiguity list
  stack,          \* the frames of the recursive traversal
  stdout,         \* what was printed: one report per header, or the merged one
  stderr,         \* the diagnostics printed
  exitCode,       \* -1 while running, then the process exit code
  recorded,       \* history: every AmbiguityRecord appended since the lists were emptied
  visits,         \* history: the packages entered since the closure was emptied, in order
  examined,       \* history: the <<requiring, index>> requirements resolved since then
  last,           \* history: the last resolution made by the traversal under way
  run,            \* which of the compared runs this is
  prev            \* the configuration and the output of the run before

vars == << cmd, primary_arch, provOrder, pkgnames, hint, filter, recommends, merge,
           pick_first, sources, requires, pc, idx, dependencies, binary_pkgs,
           source_pkgs, ambiguities, stack, stdout, stderr, exitCode, recorded,
           visits, examined, last, run, prev >>

options == << cmd, primary_arch, hint, filter, recommends, pick_first, sources, requires >>

(***************************************************************************)
(* Helpers on sequences and sets.                                          *)
(***************************************************************************)
Range(s) == {s[i] : i \in DOMAIN s}

Min(S) == CHOOSE x \in S : \A y \in S : x <= y

Max(S) == CHOOSE x \in S : \A y \in S : y <= x

RECURSIVE Ascending(_)
Ascending(S) ==
  IF S = {} THEN <<>> ELSE <<Min(S)>> \o Ascending(S \ {Min(S)})

RECURSIVE Descending(_)
Descending(S) ==
  IF S = {} THEN <<>> ELSE <<Max(S)>> \o Descending(S \ {Max(S)})

NameOf(p) == Packages[p].name

Names(s) == [i \in DOMAIN s |-> NameOf(s[i])]

\* sorted(d, key=d.get): the keys of a dict of packages, sorted as packages.
SortedNames(keys) == Names(Ascending(keys))

SourceNames == <<"app-src", "libab-src", "libfoo-src", "tool-src">>

SourceIndex(s) == CHOOSE i \in DOMAIN SourceNames : SourceNames[i] = s

\* sorted(source_pkgs, key=source_pkgs.get): source names, sorted as packages.
SortedSources(S) ==
  LET order == Ascending({SourceIndex(s) : s \in S})
  IN  [i \in DOMAIN order |-> SourceNames[order[i]]]

(***************************************************************************)
(* Architectures (module level of whatpkgs.py) and the provider queries.   *)
(***************************************************************************)
\* multi_arch = None; if primary_arch == "x86_64": multi_arch = "i686"
multi_arch == IF primary_arch = "x86_64" THEN "i686" ELSE "None"

\* query.filter(provides=req, latest=True, arch=arch)
QueryFilter(req, arch) ==
  {p \in Ids : req \in Packages[p].provides /\ Packages[p].arch = arch}

\* FindProviders with a fault: the multiarch tier is never asked.
FindProvidersNoMulti(req) ==
  LET r1 == QueryFilter(req, primary_arch)
  IN  IF Cardinality(r1) = 0 THEN QueryFilter(req, "noarch") ELSE r1

\* The three queries of debugprovides, each made only when the one before is empty.
FindProviders(req) ==
  LET r1 == QueryFilter(req, primary_arch)
      r2 == IF Cardinality(r1) = 0 /\ multi_arch # "None"
            THEN QueryFilter(req, multi_arch) ELSE r1
      r3 == IF Cardinality(r2) = 0 THEN QueryFilter(req, "noarch") ELSE r2
  IN  r3

\* The candidates as the provider hands them back: a list, in the provider's order.
Returned(req) ==
  IF provOrder = "asc" THEN Ascending(FindProviders(req))
  ELSE Descending(FindProviders(req))

\* find(name, arch): the package of that name, NoPkg when there is none.
Find(name) ==
  IF \E p \in Ids : NameOf(p) = name
  THEN CHOOSE p \in Ids : NameOf(p) = name
  ELSE NoPkg

\* source_of(PackageRecord)
SourceOf(p) == Packages[p].source

(***************************************************************************)
(* RequirementResolver (specification 4.1).                                *)
(***************************************************************************)
Result(kind, choice, cands) == [kind |-> kind, choice |-> choice, cands |-> cands]

\* PickFirstPolicy with a fault: the pick is the least PackageId, whatever the
\* provider's order.
PickFirstByPackageId(left) ==
  IF pick_first THEN Result("Single", Min(Range(left)), left)
  ELSE Result("Ambiguous", NoPkg, left)

\* PickFirstPolicy with a fault: the flag is not looked at.
PickFirstAlways(left) == Result("Single", left[1], left)

\* --pick-first: "automatically select one from the list"; the result depends on
\* "how the list is sorted".  Without it the requirement stays ambiguous.
PickFirstPolicy(left) ==
  IF pick_first THEN Result("Single", left[1], left)
  ELSE Result("Ambiguous", NoPkg, left)

Resolve(req) ==
  LET found == Returned(req)
      Keep(p) == NameOf(p) \notin filter
      left == SelectSeq(found, Keep)
      Hinted(p) == NameOf(p) \in hint
      hinted == SelectSeq(left, Hinted)
  IN  IF Len(found) = 0 THEN Result("Unresolved", NoPkg, <<>>)
      ELSE IF Len(left) = 0 THEN Result("Filtered", NoPkg, <<>>)
      ELSE IF Len(left) = 1 THEN Result("Single", left[1], left)
      ELSE IF Len(hinted) = 1 THEN Result("Single", hinted[1], left)
      ELSE PickFirstPolicy(left)

\* AmbiguityRecord: the candidates are kept as an ordered set of PackageIds.
AmbiguityRecord(req, requiring, cands) ==
  [requirement |-> req, requiring |-> requiring,
   candidates |-> Names(Ascending(Range(cands)))]

(***************************************************************************)
(* AmbiguityResolver (specification 4.3).                                  *)
(***************************************************************************)
\* resolve_ambiguity(closure, record): some candidate is a key of the closure.
resolve_ambiguity(closure, x) ==
  \E i \in DOMAIN x.candidates : x.candidates[i] \in Range(Names(closure))

\* Reconcile with a fault: the list is reported as it was recorded.
ReconcileNothing(amb, closure) == amb

\* ambiguities = [x for x in ambiguities if not resolve_ambiguity(closure, x)]
Reconcile(amb, closure) ==
  LET Unresolved(x) == ~resolve_ambiguity(closure, x)
  IN  SelectSeq(amb, Unresolved)

(***************************************************************************)
(* ClosureEngine (specification 4.2): the recursion of                     *)
(* recurse_package_deps, one frame per package being expanded.             *)
(***************************************************************************)
\* The closure the traversal was handed: dependencies, or binary_pkgs.
Closure == IF cmd = "neededby" THEN dependencies ELSE binary_pkgs

SetClosure(new) ==
  IF cmd = "neededby"
  THEN dependencies' = new /\ UNCHANGED binary_pkgs
  ELSE binary_pkgs' = new /\ UNCHANGED dependencies

\* The requirements followed from a package: the mandatory ones, then the
\* recommended ones when recommends are included.
Requirements(p) ==
  Packages[p].requires \o (IF recommends THEN Packages[p].recommends ELSE <<>>)

Frame(p) == [pkg |-> p, name |-> NameOf(p), reqs |-> Requirements(p), i |-> 1]

\* The root of a self-host traversal: the build requirements of a source package.
RootFrame(src) == [pkg |-> NoPkg, name |-> src, reqs |-> BuildRequires[src], i |-> 1]

\* AlreadyPresent with a fault: the cycle guard is missing.
NeverPresent(closure, p) == FALSE

\* The cycle guard: a package that is a key of the closure is not entered again.
AlreadyPresent(closure, p) == p \in Range(closure)

\* Insertion into the closure, a mapping keyed by package name.
Insert(closure, p) == IF p \in Range(closure) THEN closure ELSE Append(closure, p)

NoResolution == [requiring |-> "", index |-> 0, requirement |-> "", kind |-> "None",
                 choice |-> NoPkg, cands |-> <<>>]

Diagnostic(msg, what, by) == [msg |-> msg, what |-> what, by |-> by]

\* One requirement of the package on top of the stack is resolved.
Step ==
  /\ pc = "traverse"
  /\ stack # <<>>
  /\ LET top == stack[Len(stack)]
     IN  /\ top.i <= Len(top.reqs)
         /\ LET req == top.reqs[top.i]
                res == Resolve(req)
                advanced == [stack EXCEPT ![Len(stack)].i = top.i + 1]
                enter == res.kind = "Single" /\ ~AlreadyPresent(Closure, res.choice)
            IN  /\ stack' = IF enter THEN Append(advanced, Frame(res.choice)) ELSE advanced
                /\ SetClosure(IF enter THEN Insert(Closure, res.choice) ELSE Closure)
                /\ visits' = IF enter THEN Append(visits, res.choice) ELSE visits
                /\ ambiguities' =
                     IF res.kind = "Ambiguous"
                     THEN Append(ambiguities, AmbiguityRecord(req, top.name, res.cands))
                     ELSE ambiguities
                /\ recorded' =
                     IF res.kind = "Ambiguous"
                     THEN recorded \cup {AmbiguityRecord(req, top.name, res.cands)}
                     ELSE recorded
                /\ stderr' =
                     IF res.kind = "Unresolved"
                     THEN Append(stderr, Diagnostic("No package for", req, top.name))
                     ELSE stderr
                /\ examined' = examined \cup {<<top.name, top.i>>}
                /\ last' = [requiring |-> top.name, index |-> top.i, requirement |-> req,
                            kind |-> res.kind, choice |-> res.choice, cands |-> res.cands]
  /\ UNCHANGED << options, provOrder, pkgnames, merge, pc, idx, source_pkgs, stdout,
                  exitCode, run, prev >>

\* Source packages of the binary closure, inserted keyed by source name.
RECURSIVE Project(_, _)
Project(srcs, bins) ==
  IF bins = <<>> THEN srcs
  ELSE Project(IF SourceOf(Head(bins)) \in Range(srcs) THEN srcs
               ELSE Append(srcs, SourceOf(Head(bins))),
               Tail(bins))

\* The package on top of the stack has no requirement left: the call returns.
\* When the root of a self-host traversal returns, the source packages of the
\* binary closure are collected (specification 4.4, step 3).
Return ==
  /\ pc = "traverse"
  /\ stack # <<>>
  /\ stack[Len(stack)].i > Len(stack[Len(stack)].reqs)
  /\ stack' = SubSeq(stack, 1, Len(stack) - 1)
  /\ source_pkgs' = IF stack[Len(stack)].pkg = NoPkg
                    THEN Project(source_pkgs, binary_pkgs) ELSE source_pkgs
  /\ UNCHANGED << options, provOrder, pkgnames, merge, pc, idx, dependencies, binary_pkgs,
                  ambiguities, stdout, stderr, exitCode, recorded, visits, examined,
                  last, run, prev >>

(***************************************************************************)
(* Repository setup: setup_repo and _setup_static_repo.                    *)
(***************************************************************************)
\* get_query_object: with --system the system repositories are read; otherwise
\* each static repository is set up, which needs DNF 2.x (repo._id).
SetupRepo ==
  /\ pc = "setup"
  /\ \E use_system \in BOOLEAN, dnf2 \in BOOLEAN :
       IF ~use_system /\ ~dnf2
       THEN /\ stderr' = Append(stderr, Diagnostic("DNF 2.x required.", "", ""))
            /\ exitCode' = 1
            /\ pc' = "done"
       ELSE /\ pc' = IF cmd = "debugprovides" THEN "query" ELSE "loop"
            /\ UNCHANGED << stderr, exitCode >>
  /\ UNCHANGED << options, provOrder, pkgnames, merge, idx, dependencies, binary_pkgs,
                  source_pkgs, ambiguities, stack, stdout, recorded, visits, examined,
                  last, run, prev >>

(***************************************************************************)
(* neededby.                                                               *)
(***************************************************************************)
\* Skipped with a fault: a filtered name is looked up and traversed all the same.
SkippedNever(pkgname) == FALSE

\* if pkgname in filter: continue
Skipped(pkgname) == pkgname \in filter

\* StartOver with a fault: the lists are never emptied.
StartOverNever(list) == list

\* StartOver with a fault: the lists are emptied also when merging.
StartOverAlways(list) == <<>>

\* if not merge: empty the list and start over
StartOver(list) == IF merge THEN list ELSE <<>>

Report(header, pkgs, unresolved) ==
  [header |-> header, pkgs |-> pkgs, unresolved |-> unresolved]

\* The body of the loop up to the call of recurse_package_deps.
NeededbyLoop ==
  /\ pc = "loop"
  /\ cmd = "neededby"
  /\ idx <= Len(pkgnames)
  /\ LET pkgname == pkgnames[idx]
         pkg == Find(pkgname)
         deps == StartOver(dependencies)
     IN  IF Skipped(pkgname)
         THEN /\ idx' = idx + 1
              /\ UNCHANGED << pc, dependencies, ambiguities, stack, stderr, exitCode,
                              recorded, visits, examined, last >>
         ELSE IF pkg = NoPkg
         THEN /\ stderr' = Append(stderr, Diagnostic("No package named", pkgname, ""))
              /\ exitCode' = 1
              /\ pc' = "done"
              /\ UNCHANGED << idx, dependencies, ambiguities, stack, recorded, visits,
                              examined, last >>
         ELSE /\ ambiguities' = StartOver(ambiguities)
              /\ recorded' = IF merge THEN recorded ELSE {}
              /\ visits' = LET before == IF merge THEN visits ELSE <<>>
                           IN  IF AlreadyPresent(deps, pkg) THEN before
                               ELSE Append(before, pkg)
              /\ examined' = IF merge THEN examined ELSE {}
              /\ dependencies' = Insert(deps, pkg)
              /\ stack' = IF AlreadyPresent(deps, pkg) THEN <<>> ELSE <<Frame(pkg)>>
              /\ last' = NoResolution
              /\ pc' = "traverse"
              /\ UNCHANGED << idx, stderr, exitCode >>
  /\ UNCHANGED << options, provOrder, pkgnames, merge, binary_pkgs, source_pkgs, stdout,
                  run, prev >>

\* After the traversal of one name: the ambiguities are reconciled and, when
\* not merging, the name's dependencies are printed without the name itself.
NeededbyAfter ==
  /\ pc = "traverse"
  /\ cmd = "neededby"
  /\ stack = <<>>
  /\ LET left == Reconcile(ambiguities, dependencies)
         printed == {k \in Range(dependencies) : NameOf(k) # pkgnames[idx]}
     IN  /\ ambiguities' = left
         /\ stdout' = IF merge THEN stdout
                      ELSE Append(stdout, Report(pkgnames[idx], SortedNames(printed), left))
  /\ idx' = idx + 1
  /\ pc' = "loop"
  /\ UNCHANGED << options, provOrder, pkgnames, merge, dependencies, binary_pkgs,
                  source_pkgs, stack, stderr, exitCode, recorded, visits, examined,
                  last, run, prev >>

\* After the loop: the merged dependencies are printed together.
NeededbyFinish ==
  /\ pc = "loop"
  /\ cmd = "neededby"
  /\ idx > Len(pkgnames)
  /\ stdout' = IF merge
               THEN Append(stdout, Report("", SortedNames(Range(dependencies)), ambiguities))
               ELSE stdout
  /\ exitCode' = 0
  /\ pc' = "done"
  /\ UNCHANGED << options, provOrder, pkgnames, merge, idx, dependencies, binary_pkgs,
                  source_pkgs, ambiguities, stack, stderr, recorded, visits, examined,
                  last, run, prev >>

(***************************************************************************)
(* neededtoselfhost (SelfHostClosureEngine, specification 4.4).            *)
(***************************************************************************)
\* StartOverSources with a fault: source_pkgs is kept from one name to the next.
StartOverSourcesNever(list) == list

\* if not merge: source_pkgs = {}
StartOverSources(list) == IF merge THEN list ELSE <<>>

\* The body of the loop up to the call of recurse_self_host, which resolves the
\* source package of the named package and traverses its build requirements.
SelfHostLoop ==
  /\ pc = "loop"
  /\ cmd = "neededtoselfhost"
  /\ idx <= Len(pkgnames)
  /\ LET pkgname == pkgnames[idx]
         pkg == Find(pkgname)
     IN  IF Skipped(pkgname)
         THEN /\ idx' = idx + 1
              /\ UNCHANGED << pc, binary_pkgs, source_pkgs, ambiguities, stack, stderr,
                              exitCode, recorded, visits, examined, last >>
         ELSE IF pkg = NoPkg
         THEN /\ stderr' = Append(stderr, Diagnostic("No package named", pkgname, ""))
              /\ exitCode' = 1
              /\ pc' = "done"
              /\ UNCHANGED << idx, binary_pkgs, source_pkgs, ambiguities, stack, recorded,
                              visits, examined, last >>
         ELSE /\ binary_pkgs' = StartOver(binary_pkgs)
              /\ source_pkgs' = StartOverSources(source_pkgs)
              /\ ambiguities' = StartOver(ambiguities)
              /\ recorded' = IF merge THEN recorded ELSE {}
              /\ visits' = IF merge THEN visits ELSE <<>>
              /\ examined' = IF merge THEN examined ELSE {}
              /\ stack' = <<RootFrame(SourceOf(pkg))>>
              /\ last' = NoResolution
              /\ pc' = "traverse"
              /\ UNCHANGED << idx, stderr, exitCode >>
  /\ UNCHANGED << options, provOrder, pkgnames, merge, dependencies, stdout, run, prev >>

\* After recurse_self_host: the ambiguities are reconciled against binary_pkgs
\* only and, when not merging, the sources or the binaries are printed.
SelfHostAfter ==
  /\ pc = "traverse"
  /\ cmd = "neededtoselfhost"
  /\ stack = <<>>
  /\ LET left == Reconcile(ambiguities, binary_pkgs)
         printed ==
           IF sources
           THEN SortedSources({k \in Range(source_pkgs) : k # pkgnames[idx]})
           ELSE SortedNames({k \in Range(binary_pkgs) : NameOf(k) # pkgnames[idx]})
     IN  /\ ambiguities' = left
         /\ stdout' = IF merge THEN stdout
                      ELSE Append(stdout, Report(pkgnames[idx], printed, left))
  /\ idx' = idx + 1
  /\ pc' = "loop"
  /\ UNCHANGED << options, provOrder, pkgnames, merge, dependencies, binary_pkgs,
                  source_pkgs, stack, stderr, exitCode, recorded, visits, examined,
                  last, run, prev >>

SelfHostFinish ==
  /\ pc = "loop"
  /\ cmd = "neededtoselfhost"
  /\ idx > Len(pkgnames)
  /\ LET printed == IF sources THEN SortedSources(Range(source_pkgs))
                    ELSE SortedNames(Range(binary_pkgs))
     IN  stdout' = IF merge THEN Append(stdout, Report("", printed, ambiguities))
                   ELSE stdout
  /\ exitCode' = 0
  /\ pc' = "done"
  /\ UNCHANGED << options, provOrder, pkgnames, merge, idx, dependencies, binary_pkgs,
                  source_pkgs, ambiguities, stack, stderr, recorded, visits, examined,
                  last, run, prev >>

(***************************************************************************)
(* debugprovides.                                                          *)
(***************************************************************************)
\* NoProvider with a fault: the test is inverted.
SomeProvider(required_packages) == Len(required_packages) # 0

\* if len(required_packages) == 0: print "No package for"; sys.exit(1)
NoProvider(required_packages) == Len(required_packages) = 0

DebugProvides ==
  /\ pc = "query"
  /\ cmd = "debugprovides"
  /\ LET required_packages == Returned(requires)
     IN  IF NoProvider(required_packages)
         THEN /\ stderr' = Append(stderr, Diagnostic("No package for", requires, ""))
              /\ exitCode' = 1
              /\ UNCHANGED stdout
         ELSE /\ stdout' = Append(stdout, Report("", Names(required_packages), <<>>))
              /\ exitCode' = 0
              /\ UNCHANGED stderr
  /\ pc' = "done"
  /\ UNCHANGED << options, provOrder, pkgnames, merge, idx, dependencies, binary_pkgs,
                  source_pkgs, ambiguities, stack, recorded, visits, examined, last,
                  run, prev >>

(***************************************************************************)
(* The state machine.                                                      *)
(***************************************************************************)
NoPrev == [merge |-> FALSE, pkgnames |-> <<>>, provOrder |-> "", stdout |-> <<>>,
           stderr |-> <<>>, exitCode |-> -1]

\* The state a command starts in: empty closure, empty ambiguity list.
Fresh ==
  /\ pc = "setup"
  /\ idx = 1
  /\ dependencies = <<>>
  /\ binary_pkgs = <<>>
  /\ source_pkgs = <<>>
  /\ ambiguities = <<>>
  /\ stack = <<>>
  /\ stdout = <<>>
  /\ stderr = <<>>
  /\ exitCode = -1
  /\ recorded = {}
  /\ visits = <<>>
  /\ examined = {}
  /\ last = NoResolution

\* The inputs of a command.  The provider's order is varied for neededby and
\* debugprovides; the self-host runs are handed the candidates in PackageId order.
Init ==
  /\ cmd \in Commands
  /\ primary_arch \in Machines
  /\ provOrder \in (IF cmd = "neededtoselfhost" THEN {"asc"} ELSE ProviderOrders)
  /\ IF cmd = "debugprovides"
     THEN /\ requires \in Capabilities
          /\ pkgnames = <<>>
          /\ hint = {}
          /\ filter = {}
          /\ recommends = FALSE
          /\ merge = FALSE
          /\ pick_first = FALSE
          /\ sources = TRUE
     ELSE /\ requires = ""
          /\ pkgnames \in SeedLists
          /\ hint \in SUBSET HintNames
          /\ filter \in SUBSET FilterNames
          /\ recommends \in BOOLEAN
          /\ merge \in BOOLEAN
          /\ pick_first \in BOOLEAN
          /\ sources \in (IF cmd = "neededtoselfhost" THEN BOOLEAN ELSE {TRUE})
  /\ run = 1
  /\ prev = NoPrev
  /\ Fresh

Next ==
  \/ SetupRepo
  \/ NeededbyLoop
  \/ Step
  \/ Return
  \/ NeededbyAfter
  \/ NeededbyFinish
  \/ SelfHostLoop
  \/ SelfHostAfter
  \/ SelfHostFinish
  \/ DebugProvides

Spec == Init /\ [][Next]_vars

\* The command runs to its end: it is never suspended (specification 5).
FairInit ==
  /\ Init
  /\ primary_arch = "x86_64"
  /\ provOrder = "asc"
  /\ sources
  /\ cmd # "debugprovides" => (merge /\ recommends /\ pick_first /\ hint = {})

FairSpec == FairInit /\ [][Next]_vars /\ WF_vars(Next)

(***************************************************************************)
(* Two runs of neededby, one after the other, for the claims that compare  *)
(* runs.  The second run keeps the hints, the filters and the flags; it    *)
(* differs from the first in at most one of: the order in which the        *)
(* provider returns candidates, the merge flag, the order of the names.    *)
(***************************************************************************)
Reorderings(s) == {t \in [DOMAIN s -> Range(s)] : Range(t) = Range(s)}

Rerun ==
  /\ pc = "done"
  /\ run = 1
  /\ run' = 2
  /\ prev' = [merge |-> merge, pkgnames |-> pkgnames, provOrder |-> provOrder,
              stdout |-> stdout, stderr |-> stderr, exitCode |-> exitCode]
  /\ \/ provOrder' \in ProviderOrders /\ UNCHANGED << merge, pkgnames >>
     \/ merge' = ~merge /\ UNCHANGED << provOrder, pkgnames >>
     \/ pkgnames' \in Reorderings(pkgnames) \ {pkgnames} /\ UNCHANGED << provOrder, merge >>
  /\ pc' = "setup"
  /\ idx' = 1
  /\ dependencies' = <<>>
  /\ binary_pkgs' = <<>>
  /\ source_pkgs' = <<>>
  /\ ambiguities' = <<>>
  /\ stack' = <<>>
  /\ stdout' = <<>>
  /\ stderr' = <<>>
  /\ exitCode' = -1
  /\ recorded' = {}
  /\ visits' = <<>>
  /\ examined' = {}
  /\ last' = NoResolution
  /\ UNCHANGED options

TwoRunInit ==
  /\ Init
  /\ cmd = "neededby"
  /\ primary_arch = "x86_64"
  /\ "nosuch" \notin Range(pkgnames)

TwoRunNext ==
  \/ SetupRepo
  \/ NeededbyLoop
  \/ Step
  \/ Return
  \/ NeededbyAfter
  \/ NeededbyFinish
  \/ Rerun

TwoRunSpec == TwoRunInit /\ [][TwoRunNext]_vars

(***************************************************************************)
(* Properties.                                                             *)
(***************************************************************************)
KeyNames == Range(Names(Closure))

Traversing == pc = "traverse" /\ stack # <<>>

\* No package is entered twice: the packages entered are exactly the keys of
\* the closure, each once, and the frames of the traversal are frames of
\* different packages.
C1_NoReentry ==
  /\ \A i, j \in DOMAIN visits : visits[i] = visits[j] => i = j
  /\ cmd # "debugprovides" => Range(visits) = Range(Closure)
  /\ \A i, j \in DOMAIN stack : stack[i].name = stack[j].name => i = j

\* C1. Cycle safety: a package that is a key of the closure is never entered
\* again, so every package reached is a key exactly once, and every run
\* terminates, also when the requirement graph has the cycle liba -> libb -> liba.
C1_CycleSafe == []C1_NoReentry /\ <>(pc = "done")

\* A run that met the cycle: libb's requirement liba was resolved when liba
\* was a key already, and the command came to its end.
C1_Witness ==
  /\ pc = "done"
  /\ exitCode = 0
  /\ {"liba", "libb"} \subseteq KeyNames
  /\ <<"libb", 1>> \in examined
  /\ <<"liba", 2>> \in examined

\* The packages a package pulls in: the Single resolutions of its requirements.
Singles(p) ==
  {Resolve(Requirements(p)[i]).choice :
     i \in {j \in DOMAIN Requirements(p) : Resolve(Requirements(p)[j]).kind = "Single"}}

RECURSIVE ReachFrom(_)
ReachFrom(S) ==
  LET more == S \cup UNION {Singles(p) : p \in S}
  IN  IF more = S THEN S ELSE ReachFrom(more)

\* The names whose traversal has been started since the closure was last emptied.
StartedNames ==
  LET upTo == IF pc = "traverse" THEN idx ELSE idx - 1
      started == {i \in 1..upTo : i <= Len(pkgnames) /\ pkgnames[i] \notin filter}
  IN  IF merge THEN {pkgnames[i] : i \in started}
      ELSE IF started = {} THEN {}
      ELSE {pkgnames[Max(started)]}

\* C2. Transitive completeness of neededby: once the traversal of a name has
\* finished, the keys of the closure are exactly the packages reached from the
\* name (from the names so far, when merging) through Single resolutions of
\* mandatory requirements, and of recommended ones when recommends are included.
C2_TransitivelyComplete ==
  (cmd = "neededby" /\ stack = <<>> /\ pc \in {"traverse", "loop", "done"})
    => Range(dependencies) = ReachFrom({Find(n) : n \in StartedNames})

\* Two names were traversed into one closure, which holds packages reached
\* through several levels of requirements (tool -> liba -> libb).
C2_Witness ==
  /\ cmd = "neededby"
  /\ pc = "done"
  /\ exitCode = 0
  /\ merge
  /\ Len(pkgnames) = 2
  /\ {"app", "tool", "liba", "libb", "doc"} \subseteq KeyNames

\* The candidates of a requirement are all removed by the filter.
AllFiltered(req) ==
  /\ FindProviders(req) # {}
  /\ \A p \in FindProviders(req) : NameOf(p) \in filter

\* No key of either closure is a filtered name.
C3_NoFilteredKey ==
  \A k \in Range(dependencies) \cup Range(binary_pkgs) : NameOf(k) \notin filter

\* A step at a requirement whose candidates are all filtered leaves the
\* closures, the ambiguity list and the diagnostics as they were.
C3_FilteredStep ==
  (Traversing /\ stack[Len(stack)].i <= Len(stack[Len(stack)].reqs)
     /\ AllFiltered(stack[Len(stack)].reqs[stack[Len(stack)].i]))
    => /\ dependencies' = dependencies
       /\ binary_pkgs' = binary_pkgs
       /\ ambiguities' = ambiguities
       /\ stderr' = stderr

\* C3. Filter exclusion: no key of the closure is ever a filtered name, and
\* resolving a requirement whose candidates are all filtered changes neither the
\* closure nor the ambiguity list nor the diagnostics.
C3_FilterExclusion == []C3_NoFilteredKey /\ [][C3_FilteredStep]_vars

\* libb's requirement liba was resolved with liba filtered, after the filtered
\* name liba was given on the command line.
C3_Witness ==
  /\ last.kind = "Filtered"
  /\ last.requirement = "liba"
  /\ last.requiring = "libb"
  /\ \E i \in DOMAIN pkgnames : i < idx /\ pkgnames[i] \in filter

\* The candidates left to the last resolution after filtering, and the hinted ones.
LastLeft ==
  {p \in FindProviders(last.requirement) : NameOf(p) \notin filter}

LastHinted == {p \in LastLeft : NameOf(p) \in hint}

\* Scenario A and B: app requires libfoo, which libfoo1 and libfoo2 provide.
ScenarioApp ==
  /\ cmd = "neededby"
  /\ primary_arch = "x86_64"
  /\ pkgnames = <<"app">>
  /\ filter = {}
  /\ pc = "done"
  /\ exitCode = 0

C4_Scenarios ==
  /\ (ScenarioApp /\ hint = {"libfoo1"})
       => /\ KeyNames = {"app", "libfoo1"}
          /\ ambiguities = <<>>
  /\ (ScenarioApp /\ hint = {} /\ ~pick_first)
       => /\ KeyNames = {"app"}
          /\ ambiguities = << [requirement |-> "libfoo", requiring |-> "app",
                               candidates |-> <<"libfoo1", "libfoo2">>] >>

C4_Hinted ==
  (last.kind # "None" /\ Cardinality(LastLeft) > 1 /\ Cardinality(LastHinted) = 1)
    => (last.kind = "Single" /\ last.choice \in LastHinted)

C4_NotPicked ==
  (last.kind # "None" /\ Cardinality(LastLeft) > 1 /\ Cardinality(LastHinted) # 1
     /\ ~pick_first)
    => (last.kind = "Ambiguous" /\ Range(last.cands) = LastLeft)

FirstReturned ==
  LET Keep(p) == NameOf(p) \notin filter
  IN  SelectSeq(Returned(last.requirement), Keep)[1]

Reconciled == pc \in {"loop", "done"} /\ cmd # "debugprovides"

HasKeyCandidate(x) == \E i \in DOMAIN x.candidates : x.candidates[i] \in KeyNames

LastReport == stdout[Len(stdout)]

\* C5. Ambiguity reconciliation: the list a closure is reported with holds no
\* record that has a candidate among the keys of the closure, and holds every
\* record appended since the list was emptied none of whose candidates is a key;
\* the list printed for a name, or for the merged run, is that list.
C5_Reconciliation ==
  /\ Reconciled =>
       /\ \A i \in DOMAIN ambiguities : ~HasKeyCandidate(ambiguities[i])
       /\ \A x \in recorded : ~HasKeyCandidate(x) => x \in Range(ambiguities)
  /\ (Reconciled /\ pc = "done" /\ exitCode = 0 /\ merge)
       => LastReport.unresolved = ambiguities
  /\ (Reconciled /\ ~merge /\ idx > 1 /\ idx - 1 <= Len(pkgnames)
        /\ exitCode # 1 /\ pkgnames[idx - 1] \notin filter)
       => (LastReport.header = pkgnames[idx - 1] /\ LastReport.unresolved = ambiguities)

\* A merged run in which the ambiguity recorded for app was dropped after tool
\* pulled in libfoo1.
C5_Witness ==
  /\ cmd = "neededby"
  /\ pc = "done"
  /\ merge
  /\ pkgnames = <<"app", "tool">>
  /\ [requirement |-> "libfoo", requiring |-> "app",
      candidates |-> <<"libfoo1", "libfoo2">>] \in recorded
  /\ ambiguities = <<>>
  /\ "libfoo1" \in KeyNames

\* C6. Self-host projection: source_pkgs never has more entries than
\* binary_pkgs, and each of its entries is the source package of a package of
\* binary_pkgs.
C6_SelfHostProjection ==
  cmd = "neededtoselfhost" =>
    /\ Len(source_pkgs) <= Cardinality(Range(binary_pkgs))
    /\ \A i \in DOMAIN source_pkgs :
         \E b \in Range(binary_pkgs) : SourceOf(b) = source_pkgs[i]

\* Two names handled one by one; the run ends with several binaries sharing
\* one source package.
C6_Witness ==
  /\ cmd = "neededtoselfhost"
  /\ pc = "done"
  /\ exitCode = 0
  /\ ~merge
  /\ Len(pkgnames) = 2
  /\ source_pkgs # <<>>
  /\ Len(source_pkgs) < Cardinality(Range(binary_pkgs))

\* The repository metadata was loaded: the setup did not stop at the DNF version.
Loaded(err) == Diagnostic("DNF 2.x required.", "", "") \notin Range(err)

\* The second of two runs has ended; it was given what the first was given, and
\* both had the repository loaded.
SameInputs ==
  /\ run = 2
  /\ pc = "done"
  /\ prev.merge = merge
  /\ prev.pkgnames = pkgnames
  /\ Loaded(stderr)
  /\ Loaded(prev.stderr)

MissingName ==
  /\ cmd \in {"neededby", "neededtoselfhost"}
  /\ idx <= Len(pkgnames)
  /\ pkgnames[idx] \notin filter
  /\ \A p \in Ids : NameOf(p) # pkgnames[idx]
  /\ stack = <<>>
  /\ stderr # <<>>
  /\ stderr[Len(stderr)] = Diagnostic("No package named", pkgnames[idx], "")

NoProviderAtAll(req) == \A p \in Ids : req \notin Packages[p].provides \/
                                       Packages[p].arch \notin {primary_arch, multi_arch, "noarch"}

\* Every requirement of every key of the closure has been resolved.
AllExamined ==
  \A k \in Range(Closure) : \A i \in DOMAIN Requirements(k) : <<NameOf(k), i>> \in examined

Tiers ==
  IF primary_arch = "x86_64" THEN <<primary_arch, "i686", "noarch">>
  ELSE <<primary_arch, "noarch">>

InTier(req, t) == {p \in Ids : Packages[p].arch = Tiers[t] /\ req \in Packages[p].provides}

FirstTierWithAny(req) ==
  LET any == {t \in DOMAIN Tiers : InTier(req, t) # {}}
  IN  IF any = {} THEN {} ELSE InTier(req, Min(any))

ReportKeys(r) == Range(r.pkgs) \cup (IF r.header = "" THEN {} ELSE {r.header})

AllKeys(out) == UNION {ReportKeys(out[i]) : i \in DOMAIN out}

AllUnresolved(out) == UNION {Range(out[i].unresolved) : i \in DOMAIN out}

BothRunsEnded == run = 2 /\ pc = "done" /\ exitCode = 0 /\ prev.exitCode = 0

\* The merged one and the per-name one of two runs over the same names.
MergedOut == IF merge THEN stdout ELSE prev.stdout

PerNameOut == IF merge THEN prev.stdout ELSE stdout

\* C10. A merged run and the runs name by name: the keys of the merged closure
\* are the union of the keys of the closures of the names, every ambiguity
\* left by the merged run is left by the run of some name, and the keys of the
\* merged closure do not depend on the order of the names.
C10_MergeIsUnion ==
  /\ (BothRunsEnded /\ prev.merge # merge) =>
       /\ AllKeys(MergedOut) = AllKeys(PerNameOut)
       /\ AllUnresolved(MergedOut) \subseteq AllUnresolved(PerNameOut)
  /\ (BothRunsEnded /\ prev.merge /\ merge /\ prev.pkgnames # pkgnames) =>
       AllKeys(stdout) = AllKeys(prev.stdout)

\* A merged run of two names and then the same names one by one, each with a
\* closure of its own.
C10_Witness ==
  /\ BothRunsEnded
  /\ prev.merge
  /\ ~merge
  /\ Len(stdout) = 2
  /\ ReportKeys(stdout[1]) # ReportKeys(stdout[2])
  /\ ~(ReportKeys(stdout[1]) \subseteq ReportKeys(stdout[2]))
  /\ ~(ReportKeys(stdout[2]) \subseteq ReportKeys(stdout[1]))
  /\ AllUnresolved(prev.stdout) # {}

====
